---------------------------- MODULE Spec2Model ----------------------------
(***************************************************************************)
(* Model of the broker's leaf components: the sharded buffer pool          *)
(* (src/src/buffer_pool.rs), the framing codec and the per-slave frame     *)
(* dispatch (src/src/packet.rs) and the vetting steps                      *)
(* (src/src/verify_slave.rs).  Each component has its own specification    *)
(* over the shared variables: SpecPool, SpecCodec, SpecHeader, SpecSlave,  *)
(* SpecVet and SpecVetting; parse_args of src/src/conf.rs is SpecConf;     *)
(* SpecShard is one shard of the pool under concurrent callers.            *)
(***************************************************************************)
EXTENDS Integers, Sequences, FiniteSets, TLC

VARIABLES
    shards,       \* ShardedBufferPool.shards: one VecDeque<BytesMut> per shard
    pool_call,    \* the last pool call: operation, id, buffer passed, buffer
                  \* returned, head popped, buffers the shard held before it
    pool_ops,     \* number of pool calls made so far
    sent,         \* the frames built so far, as the builders' arguments
    built,        \* the last builder call: its arguments and the bytes it made
    wire,         \* encoded bytes written to the stream and not yet read
    rxbuf,        \* bytes the reader has read and not yet consumed
    rcvd,         \* the frames the reader has decoded so far
    partial,      \* the reader has at some point held an incomplete frame
    hdr_in,       \* the buffer handed to parse_header
    hdr_out,      \* what parse_header returned for it, None before the call
    now,          \* the clock Instant::now() reads
    last_seen,    \* per slave, the last_seen instant of its read task
    rd_pc,        \* per slave, where its read task is: "read" (waiting for a
                  \* frame), "lock" (process_packet waits for the ProxyManager
                  \* mutex), "route" (route_to_client runs under the mutex)
    rd_frame,     \* per slave, the frame process_packet is working on
    pm_lock,      \* the holder of the ProxyManager mutex, None when free
    routed,       \* the (slave, session id, payload) handed to route_to_client
    pp_done,      \* the last process_packet call that returned: its slave,
                  \* the frames read by then, its arguments, its result,
                  \* whether it wrote last_seen
    rd_count,     \* frames read from slaves so far
    rd_log,       \* the (slave, session id, payload) of the Data frames
                  \* process_packet was called with, in the order of the calls
    sessions,     \* the session ids in the ProxyManager's session table
    vet_pc,       \* per candidate slave, where its vetting step is: "start",
                  \* "read" (request written, response awaited), "done"
    vet_resp,     \* per candidate slave, the outcome of the timed read
    vet_result,   \* per candidate slave, what the vetting step returned
    slave_version,  \* per candidate slave, Slave.version
    slave_location, \* per candidate slave, Slave.location
    slave_speed,    \* per candidate slave, Slave.speed
    vet_step,     \* the vetting step the candidates are at
    allowed_locations, \* the allowed_locations handed to the geolocation check
    vet_arrived,  \* per candidate slave, the bytes of its response that
                  \* have reached the broker
    vet_split,    \* per candidate slave, they came in more than one chunk
    vet_closed,   \* per candidate slave, it closed the stream
    vet_req,      \* per candidate slave, what has become of the request the
                  \* step writes: "pending", "drained" (the slave's side took
                  \* the bytes), "reset" (the slave reset the connection)
    conf_flag,    \* the value of the -p/--proxy_mode flag, None when absent
    conf_env,     \* the value of PROXY_MODE in the environment, None when unset
    conf_mode,    \* the proxy_mode parse_args computed, None before the call
    sh_queue,     \* BufferPoolShard.buffers of one shard: its buffers, each
                  \* with the identity of its allocation
    sh_lock,      \* the task that holds the shard's AsyncMutex, None when free
    sh_wait,      \* the tasks waiting in lock().await, first come first
    sh_pc,        \* per task, where its call is: "idle", "get_wait",
                  \* "get_locked", "get_popped", "ret_wait", "ret_locked",
                  \* "ret_checked"
    sh_local,     \* per task, the locals of its call: the buffer popped or
                  \* passed in, and whether the queue had room
    sh_owned,     \* per task, the buffers it owns
    sh_next,      \* the identity of the next allocation
    sh_calls,     \* calls begun so far
    sh_log        \* the identities of the buffers the shard began with,
                  \* and in call order those return_buffer accepted, those
                  \* it discarded and those get_buffer popped

pool_vars == <<shards, pool_call, pool_ops>>
codec_vars == <<sent, built, wire, rxbuf, rcvd, partial>>
header_vars == <<hdr_in, hdr_out>>

slave_vars ==
    <<now, last_seen, rd_pc, rd_frame, pm_lock, routed, pp_done, rd_count,
      rd_log, sessions>>

vet_meta == <<slave_version, slave_location, slave_speed>>
vet_conf == <<vet_step, allowed_locations>>
vet_wire == <<vet_arrived, vet_split, vet_closed, vet_req>>
vet_vars == <<vet_pc, vet_resp, vet_result, vet_meta, vet_conf, vet_wire>>

conf_vars == <<conf_flag, conf_env, conf_mode>>

shard_vars ==
    <<sh_queue, sh_lock, sh_wait, sh_pc, sh_local, sh_owned, sh_next, sh_calls,
      sh_log>>

vars ==
    <<pool_vars, codec_vars, header_vars, slave_vars, vet_vars, conf_vars,
      shard_vars>>

\* what each component's actions leave alone
not_pool_vars ==
    <<codec_vars, header_vars, slave_vars, vet_vars,
      conf_vars, shard_vars>>
not_codec_vars ==
    <<pool_vars, header_vars, slave_vars, vet_vars,
      conf_vars, shard_vars>>
not_header_vars ==
    <<pool_vars, codec_vars, slave_vars, vet_vars,
      conf_vars, shard_vars>>
not_slave_vars ==
    <<pool_vars, codec_vars, header_vars, vet_vars,
      conf_vars, shard_vars>>
not_vet_vars ==
    <<pool_vars, codec_vars, header_vars, slave_vars,
      conf_vars, shard_vars>>
not_conf_vars ==
    <<pool_vars, codec_vars, header_vars, slave_vars,
      vet_vars, shard_vars>>
not_shard_vars ==
    <<pool_vars, codec_vars, header_vars, slave_vars,
      vet_vars, conf_vars>>

\* Option<T>: None is the empty tuple, Some(x) the one-element tuple
None == <<>>
Some(x) == <<x>>
IsSome(o) == o # <<>>
Unwrap(o) == o[1]

(***************************************************************************)
(* Buffer pool (src/src/buffer_pool.rs)                                    *)
(***************************************************************************)
MAX_BUF_SIZE == 8192
POOL_SIZE == 200

MaxShards == 2     \* num_shards passed to ShardedBufferPool::new is 1..MaxShards
MaxId == 2         \* ids passed to get_buffer/return_buffer are 0..MaxId
MaxPoolOps == 3    \* pool calls per behaviour

\* pool_size values passed to ShardedBufferPool::new
PoolSizes == {0, POOL_SIZE - 1, POOL_SIZE, POOL_SIZE + 1}

\* a BytesMut is its length and its capacity
BytesMut(len, cap) == [len |-> len, cap |-> cap]

\* buffers a caller may hand to return_buffer: shrunk, clean, full, grown, empty
CallerBuffers ==
    { BytesMut(5, MAX_BUF_SIZE - 1), BytesMut(0, MAX_BUF_SIZE),
      BytesMut(MAX_BUF_SIZE, MAX_BUF_SIZE), BytesMut(100, 2 * MAX_BUF_SIZE),
      BytesMut(0, 0) }

BytesMut_with_capacity(cap) == BytesMut(0, cap)

BytesMut_clear(buffer) == [buffer EXCEPT !.len = 0]

\* BufferPoolShard::new
BufferPoolShard_new(pool_size) ==
    [i \in 1..pool_size |-> BytesMut_with_capacity(MAX_BUF_SIZE)]

\* ShardedBufferPool::new
ShardedBufferPool_new(num_shards, pool_size) ==
    [s \in 1..num_shards |-> BufferPoolShard_new(pool_size)]

\* a mutant of reuse that never reallocates a shrunk buffer
Mut_reuse_norealloc(buffer) == BytesMut_clear(buffer)

\* a mutant of reuse that skips clear()
Mut_reuse_noclear(buffer) ==
    IF buffer.cap < MAX_BUF_SIZE
    THEN BytesMut_with_capacity(MAX_BUF_SIZE)
    ELSE buffer

\* the buffer get_buffer makes of the popped head
reuse(buffer) ==
    IF buffer.cap < MAX_BUF_SIZE
    THEN BytesMut_with_capacity(MAX_BUF_SIZE)
    ELSE BytesMut_clear(buffer)

\* BufferPoolShard::get_buffer: the buffer returned and the queue left
shard_get_buffer(buffers) ==
    IF buffers # <<>>
    THEN [buffer |-> reuse(Head(buffers)), buffers |-> Tail(buffers)]
    ELSE [buffer |-> BytesMut_with_capacity(MAX_BUF_SIZE), buffers |-> buffers]

\* a mutant that compares with <= and so lets a full shard grow by one
Mut_return_offbyone(buffers, buffer) ==
    IF Len(buffers) <= POOL_SIZE
    THEN Append(buffers, buffer)
    ELSE buffers

\* BufferPoolShard::return_buffer: the queue left
shard_return_buffer(buffers, buffer) ==
    IF Len(buffers) < POOL_SIZE
    THEN Append(buffers, buffer)
    ELSE buffers

\* a mutant that sends every id to the first shard
Mut_shard_index_first(id) == 1

\* id % self.shards.len(), as a 1-based index
shard_index(id) == (id % Len(shards)) + 1

\* the components a specification leaves out stay in these states
PoolUnused == shards = <<>> /\ pool_call = None /\ pool_ops = 0
CodecUnused ==
    /\ sent = <<>> /\ built = None /\ wire = <<>> /\ rxbuf = <<>>
    /\ rcvd = <<>> /\ partial = FALSE
HeaderUnused == hdr_in = <<>> /\ hdr_out = None
SlaveUnused ==
    /\ now = 0 /\ last_seen = <<>> /\ rd_pc = <<>> /\ rd_frame = <<>>
    /\ pm_lock = None /\ routed = <<>> /\ pp_done = None /\ rd_count = 0
    /\ rd_log = <<>> /\ sessions = {}
VetUnused ==
    /\ vet_pc = <<>> /\ vet_resp = <<>> /\ vet_result = <<>>
    /\ slave_version = <<>> /\ slave_location = <<>> /\ slave_speed = <<>>
    /\ vet_step = "" /\ allowed_locations = <<>>
    /\ vet_arrived = <<>> /\ vet_split = <<>> /\ vet_closed = <<>>
    /\ vet_req = <<>>
ConfUnused == conf_flag = None /\ conf_env = None /\ conf_mode = None
ShardUnused ==
    /\ sh_queue = <<>> /\ sh_lock = None /\ sh_wait = <<>> /\ sh_pc = <<>>
    /\ sh_local = <<>> /\ sh_owned = <<>> /\ sh_next = 0 /\ sh_calls = 0
    /\ sh_log = <<>>

InitPool ==
    /\ CodecUnused /\ HeaderUnused /\ SlaveUnused /\ VetUnused
    /\ ConfUnused
    /\ ShardUnused
    /\ \E num_shards \in 1..MaxShards, pool_size \in PoolSizes :
          shards = ShardedBufferPool_new(num_shards, pool_size)
    /\ pool_call = [op |-> "new", id |-> 0, arg |-> None, out |-> None,
                    head |-> None, held |-> 0]
    /\ pool_ops = 0

\* ShardedBufferPool::get_buffer
get_buffer(id) ==
    /\ pool_ops < MaxPoolOps
    /\ LET buffers == shards[shard_index(id)]
           r == shard_get_buffer(buffers) IN
          /\ shards' = [shards EXCEPT ![shard_index(id)] = r.buffers]
          /\ pool_call' = [op |-> "get_buffer", id |-> id, arg |-> None,
                           out |-> Some(r.buffer),
                           head |-> IF buffers = <<>> THEN None
                                    ELSE Some(Head(buffers)),
                           held |-> Len(buffers)]
    /\ pool_ops' = pool_ops + 1
    /\ UNCHANGED not_pool_vars

\* ShardedBufferPool::return_buffer
return_buffer(id, buffer) ==
    /\ pool_ops < MaxPoolOps
    /\ shards' = [shards EXCEPT ![shard_index(id)] =
                      shard_return_buffer(shards[shard_index(id)], buffer)]
    /\ pool_call' = [op |-> "return_buffer", id |-> id, arg |-> Some(buffer),
                     out |-> None, head |-> None,
                     held |-> Len(shards[shard_index(id)])]
    /\ pool_ops' = pool_ops + 1
    /\ UNCHANGED not_pool_vars

\* a caller returns a buffer it drew from the pool earlier or one of its own
NextPool ==
    \/ \E id \in 0..MaxId : get_buffer(id)
    \/ \E id \in 0..MaxId, buffer \in CallerBuffers : return_buffer(id, buffer)

SpecPool == InitPool /\ [][NextPool]_vars

\* C1: every buffer returned by get_buffer has capacity >= MAX_BUF_SIZE and
\* length 0, whatever buffers were released before.
Thm_C1 ==
    pool_call.op = "get_buffer" =>
        /\ Unwrap(pool_call.out).cap >= MAX_BUF_SIZE
        /\ Unwrap(pool_call.out).len = 0

\* get_buffer popped a released buffer that was shrunk below MAX_BUF_SIZE
Wit_C1 ==
    /\ pool_call.op = "get_buffer"
    /\ IsSome(pool_call.head)
    /\ Unwrap(pool_call.head).cap < MAX_BUF_SIZE
    /\ Unwrap(pool_call.head).len > 0

\* C2 as stated: every buffer stored in any shard's queue has length 0.
Orig_C2 ==
    \A s \in DOMAIN shards : \A i \in DOMAIN shards[s] : shards[s][i].len = 0

\* C2 amended: return_buffer stores an accepted buffer with the length and
\* capacity the caller left in it; the length is reset to 0 only when
\* get_buffer hands the buffer out.
Thm_C2 ==
    /\ (pool_call.op = "return_buffer" /\ pool_call.held < POOL_SIZE) =>
          LET q == shards[(pool_call.id % Len(shards)) + 1] IN
              q[Len(q)] = Unwrap(pool_call.arg)
    /\ (pool_call.op = "get_buffer" /\ IsSome(pool_call.head)) =>
          Unwrap(pool_call.out).len = 0

\* a buffer of non-zero length was released, sits in a queue, and a later
\* get_buffer drew a buffer of non-zero length from a queue
Wit_C2 ==
    /\ pool_call.op = "get_buffer"
    /\ IsSome(pool_call.head)
    /\ Unwrap(pool_call.head).len > 0
    /\ Unwrap(pool_call.head).cap >= MAX_BUF_SIZE
    /\ \E s \in DOMAIN shards : \E i \in DOMAIN shards[s] : shards[s][i].len > 0

\* C3: return_buffer appends the buffer at the tail of shard id mod
\* shard_count when that shard holds fewer than POOL_SIZE buffers and
\* otherwise leaves the queue unchanged; a release never grows a shard
\* beyond POOL_SIZE.
Thm_C3 ==
    [][pool_call'.op = "return_buffer" =>
          LET s == (pool_call'.id % Len(shards)) + 1
              q == shards[s]
          IN  /\ Len(q) < POOL_SIZE =>
                    /\ Len(shards'[s]) = Len(q) + 1
                    /\ shards'[s][Len(q) + 1] = Unwrap(pool_call'.arg)
                    /\ \A i \in 1..Len(q) : shards'[s][i] = q[i]
              /\ Len(q) >= POOL_SIZE => shards'[s] = q
              /\ Len(shards'[s]) > Len(q) => Len(shards'[s]) <= POOL_SIZE]_vars

\* a release found its shard full and was dropped, and the shard still holds
\* POOL_SIZE buffers
Wit_C3 ==
    /\ pool_call.op = "return_buffer"
    /\ pool_call.held = POOL_SIZE
    /\ Len(shards[(pool_call.id % Len(shards)) + 1]) = POOL_SIZE

\* C20: a get_buffer(id) or return_buffer(id, buf) call acts on shard
\* id mod shard_count alone: the number of shards stays, the queue of every
\* other shard is unchanged, and the shard the call found holding
\* pool_call.held buffers, popped or pushed, is that one, so ids congruent
\* modulo shard_count use the same shard.
Thm_C20 ==
    [][pool_ops' # pool_ops =>
          LET own == (pool_call'.id % Len(shards)) + 1 IN
          /\ Len(shards') = Len(shards)
          /\ \A s \in 1..Len(shards) : s # own => shards'[s] = shards[s]
          /\ pool_call'.held = Len(shards[own])
          /\ (pool_call'.op = "get_buffer" /\ shards[own] # <<>>) =>
                shards'[own] = Tail(shards[own])
          /\ (pool_call'.op = "return_buffer"
                /\ Len(shards[own]) < POOL_SIZE) =>
                shards'[own] = Append(shards[own], Unwrap(pool_call'.arg))]_vars

\* with two shards that started empty, return_buffer(2, ..) pushed onto the
\* first shard, which already held the buffer of an earlier call with an
\* even id, and the second shard is still empty
Wit_C20 ==
    /\ Len(shards) = 2
    /\ pool_call.op = "return_buffer"
    /\ pool_call.id = 2
    /\ pool_call.held = 1
    /\ Len(shards[1]) = 2
    /\ shards[2] = <<>>

(***************************************************************************)
(* One shard under concurrent calls (src/src/buffer_pool.rs)               *)
(***************************************************************************)
MaxTasks == 2        \* tasks that call into the shard
MaxShardCalls == 3   \* calls begun per behaviour

Tasks == 1..MaxTasks

\* pool_size values the shard is built with
ShardSizes == {0, 1, POOL_SIZE}

\* buffers a task allocates itself and hands to return_buffer: shrunk, full
TaskBuffers == {BytesMut(5, MAX_BUF_SIZE - 1), BytesMut(5, MAX_BUF_SIZE)}

\* the identities of the buffers in a sequence or set of buffers
IdsOfSeq(q) == {q[i].id : i \in 1..Len(q)}
IdsOfSet(S) == {b.id : b \in S}

\* a mutant of the mutex that grants the lock to any waiting task at once
Mut_lock_granted_any(t) == \E i \in 1..Len(sh_wait) : sh_wait[i] = t

\* tokio's Mutex: lock().await completes for the task at the head of the
\* waiters when the mutex is free
lock_granted(t) ==
    /\ sh_lock = None
    /\ sh_wait # <<>>
    /\ Head(sh_wait) = t

InitShard ==
    /\ PoolUnused /\ CodecUnused /\ HeaderUnused /\ SlaveUnused /\ VetUnused
    /\ ConfUnused
    /\ \E pool_size \in ShardSizes :
          /\ sh_queue = [i \in 1..pool_size |->
                            [id |-> i,
                             buf |-> BytesMut_with_capacity(MAX_BUF_SIZE)]]
          /\ sh_next = pool_size + 1
          /\ sh_log = [initial |-> 1..pool_size, accepted |-> <<>>,
                       discarded |-> <<>>, popped |-> <<>>]
    /\ sh_lock = None
    /\ sh_wait = <<>>
    /\ sh_pc = [t \in Tasks |-> "idle"]
    /\ sh_local = [t \in Tasks |-> None]
    /\ sh_owned = [t \in Tasks |-> {}]
    /\ sh_calls = 0

\* task t calls get_buffer and waits in self.buffers.lock().await
call_get_buffer(t) ==
    /\ sh_pc[t] = "idle"
    /\ sh_calls < MaxShardCalls
    /\ sh_calls' = sh_calls + 1
    /\ sh_wait' = Append(sh_wait, t)
    /\ sh_pc' = [sh_pc EXCEPT ![t] = "get_wait"]
    /\ UNCHANGED <<sh_queue, sh_lock, sh_local, sh_owned, sh_next, sh_log,
                   not_shard_vars>>

\* task t calls return_buffer with a buffer it owns, moving it into the
\* call, and waits in self.buffers.lock().await
call_return_owned(t) ==
    /\ sh_pc[t] = "idle"
    /\ sh_calls < MaxShardCalls
    /\ \E buffer \in sh_owned[t] :
          /\ sh_owned' = [sh_owned EXCEPT ![t] = @ \ {buffer}]
          /\ sh_local' = [sh_local EXCEPT ![t] = Some(buffer)]
    /\ sh_calls' = sh_calls + 1
    /\ sh_wait' = Append(sh_wait, t)
    /\ sh_pc' = [sh_pc EXCEPT ![t] = "ret_wait"]
    /\ UNCHANGED <<sh_queue, sh_lock, sh_next, sh_log, not_shard_vars>>

\* task t calls return_buffer with a buffer it allocated itself
call_return_new(t, buf) ==
    /\ sh_pc[t] = "idle"
    /\ sh_calls < MaxShardCalls
    /\ sh_calls' = sh_calls + 1
    /\ sh_local' = [sh_local EXCEPT ![t] = Some([id |-> sh_next, buf |-> buf])]
    /\ sh_next' = sh_next + 1
    /\ sh_wait' = Append(sh_wait, t)
    /\ sh_pc' = [sh_pc EXCEPT ![t] = "ret_wait"]
    /\ UNCHANGED <<sh_queue, sh_lock, sh_owned, sh_log, not_shard_vars>>

\* self.buffers.lock().await completes for task t
lock_acquired(t) ==
    /\ sh_pc[t] \in {"get_wait", "ret_wait"}
    /\ lock_granted(t)
    /\ sh_lock' = Some(t)
    /\ sh_wait' = SelectSeq(sh_wait, LAMBDA u : u # t)
    /\ sh_pc' = [sh_pc EXCEPT ![t] = IF sh_pc[t] = "get_wait"
                                     THEN "get_locked" ELSE "ret_locked"]
    /\ UNCHANGED <<sh_queue, sh_local, sh_owned, sh_next, sh_calls, sh_log,
                   not_shard_vars>>

\* get_buffer, buffers.pop_front(), first half: the front of the queue is
\* read.  The two halves are one step of the queue only because the caller
\* holds the mutex
get_pop_front(t) ==
    /\ sh_pc[t] = "get_locked"
    /\ sh_local' = [sh_local EXCEPT ![t] =
                       IF sh_queue = <<>> THEN None ELSE Some(Head(sh_queue))]
    /\ sh_pc' = [sh_pc EXCEPT ![t] = "get_popped"]
    /\ UNCHANGED <<sh_queue, sh_lock, sh_wait, sh_owned, sh_next, sh_calls,
                   sh_log, not_shard_vars>>

\* get_buffer, second half of pop_front and the rest: the front is removed,
\* the buffer is cleared or replaced by a new allocation, or a new buffer is
\* allocated for an empty queue; the guard is dropped and the buffer is the
\* caller's
get_returns(t) ==
    /\ sh_pc[t] = "get_popped"
    /\ LET popped == sh_local[t]
           kept == IsSome(popped) /\ Unwrap(popped).buf.cap >= MAX_BUF_SIZE
           out == IF kept
                  THEN [id |-> Unwrap(popped).id,
                        buf |-> reuse(Unwrap(popped).buf)]
                  ELSE [id |-> sh_next,
                        buf |-> BytesMut_with_capacity(MAX_BUF_SIZE)]
       IN /\ sh_queue' = IF IsSome(popped) /\ sh_queue # <<>>
                         THEN Tail(sh_queue) ELSE sh_queue
          /\ sh_next' = IF kept THEN sh_next ELSE sh_next + 1
          /\ sh_owned' = [sh_owned EXCEPT ![t] = @ \cup {out}]
          /\ sh_log' = IF IsSome(popped)
                       THEN [sh_log EXCEPT
                                !.popped = Append(@, Unwrap(popped).id)]
                       ELSE sh_log
    /\ sh_local' = [sh_local EXCEPT ![t] = None]
    /\ sh_lock' = None
    /\ sh_pc' = [sh_pc EXCEPT ![t] = "idle"]
    /\ UNCHANGED <<sh_wait, sh_calls, not_shard_vars>>

\* return_buffer under the mutex: the buffer is pushed when the queue holds
\* fewer than POOL_SIZE buffers and dropped otherwise; the guard is dropped
ret_returns(t) ==
    /\ sh_pc[t] = "ret_locked"
    /\ sh_queue' = shard_return_buffer(sh_queue, Unwrap(sh_local[t]))
    /\ sh_log' = IF Len(sh_queue) < POOL_SIZE
                 THEN [sh_log EXCEPT
                          !.accepted = Append(@, Unwrap(sh_local[t]).id)]
                 ELSE [sh_log EXCEPT
                          !.discarded = Append(@, Unwrap(sh_local[t]).id)]
    /\ sh_local' = [sh_local EXCEPT ![t] = None]
    /\ sh_lock' = None
    /\ sh_pc' = [sh_pc EXCEPT ![t] = "idle"]
    /\ UNCHANGED <<sh_wait, sh_owned, sh_next, sh_calls, not_shard_vars>>

\* the steps of a call of task t once it has begun
shard_call(t) ==
    lock_acquired(t) \/ get_pop_front(t) \/ get_returns(t) \/ ret_returns(t)

NextShard ==
    \/ \E t \in Tasks : call_get_buffer(t)
    \/ \E t \in Tasks : call_return_owned(t)
    \/ \E t \in Tasks, buf \in TaskBuffers : call_return_new(t, buf)
    \/ \E t \in Tasks : lock_acquired(t)
    \/ \E t \in Tasks : get_pop_front(t)
    \/ \E t \in Tasks : get_returns(t)
    \/ \E t \in Tasks : ret_returns(t)

\* the runtime polls every task whose await can complete, and tokio's Mutex
\* serves its waiters first come first
SpecShard ==
    InitShard /\ [][NextShard]_vars /\ \A t \in Tasks : WF_vars(shard_call(t))

\* the buffers task t has in hand: those it owns and the one it has moved
\* into a return_buffer call that has not pushed or dropped it yet
InHand(t) ==
    IdsOfSet(sh_owned[t])
        \cup IF sh_pc[t] \in {"ret_wait", "ret_locked"}
             THEN {Unwrap(sh_local[t]).id} ELSE {}

\* how often id occurs in a sequence of identities
Times(ids, id) == Cardinality({i \in 1..Len(ids) : ids[i] = id})

\* no buffer is in the hands of two tasks, or in a task's hands and in the
\* queue, or twice in the queue; and the queue holds exactly the buffers it
\* began with or accepted and has not popped since
ShardSafe ==
    /\ \A t, u \in Tasks : t # u => InHand(t) \cap InHand(u) = {}
    /\ \A t \in Tasks :
          /\ InHand(t) \cap IdsOfSeq(sh_queue) = {}
          /\ Cardinality(IdsOfSet(sh_owned[t])) = Cardinality(sh_owned[t])
    /\ Cardinality(IdsOfSeq(sh_queue)) = Len(sh_queue)
    /\ LET due(id) == (IF id \in sh_log.initial THEN 1 ELSE 0)
                          + Times(sh_log.accepted, id)
                          - Times(sh_log.popped, id)
       IN /\ \A id \in 1..(sh_next - 1) : due(id) \in {0, 1}
          /\ IdsOfSeq(sh_queue) = {id \in 1..(sh_next - 1) : due(id) = 1}

\* C21: under every interleaving of the tasks' get_buffer and return_buffer
\* calls on one shard, no buffer is held by two tasks at once or held by a
\* task while it is in the queue, no buffer the shard accepted leaves the
\* queue other than by being popped, and, the tasks being scheduled fairly,
\* every call that has begun completes.
Thm_C21 ==
    /\ []ShardSafe
    /\ \A t \in Tasks : sh_pc[t] # "idle" ~> sh_pc[t] = "idle"

\* a task holds the mutex in get_buffer, having read at the front of the
\* queue a buffer the shard accepted earlier, while another task waits for
\* the mutex in return_buffer
Wit_C21 ==
    \E t, u \in Tasks :
        /\ t # u
        /\ sh_lock = Some(t)
        /\ sh_pc[t] = "get_popped"
        /\ IsSome(sh_local[t])
        /\ sh_pc[u] = "ret_wait"
        /\ sh_wait = <<u>>
        /\ sh_log.accepted = <<Unwrap(sh_local[t]).id>>

\* C22: a shard built with BufferPoolShard::new(pool_size) never holds more
\* than pool_size buffers, initially and after any get_buffer and
\* return_buffer calls.
Orig_C22 ==
    Len(sh_queue) <= Cardinality(sh_log.initial)

(***************************************************************************)
(* Framing codec (src/src/packet.rs)                                       *)
(***************************************************************************)
MaxFrames == 2     \* frames built per behaviour

Byte == 0..255

\* enum PacketType, and `packet_type as u8`
PacketType == {"Data", "Command"}
PacketType_as_u8(packet_type) == IF packet_type = "Data" THEN 0 ELSE 1

\* PacketType::from_u8
PacketType_from_u8(value) ==
    CASE value = 0 -> Some("Data")
      [] value = 1 -> Some("Command")
      [] OTHER -> None

\* enum CommandType, and `cmd as u8`
CommandType ==
    {"SpeedCheck", "VersionCheck", "Heartbeat", "LocationCheck", "InitSession"}
CommandType_as_u8(cmd) ==
    CASE cmd = "SpeedCheck" -> 1
      [] cmd = "VersionCheck" -> 2
      [] cmd = "Heartbeat" -> 3
      [] cmd = "LocationCheck" -> 4
      [] cmd = "InitSession" -> 5

\* CommandType::from_u8
CommandType_from_u8(value) ==
    CASE value = 1 -> Some("SpeedCheck")
      [] value = 2 -> Some("VersionCheck")
      [] value = 3 -> Some("Heartbeat")
      [] value = 4 -> Some("LocationCheck")
      [] value = 5 -> Some("InitSession")
      [] OTHER -> None

\* BufMut::put_u32: the four bytes of a u32, most significant first.  The
\* u32 values of the model (session ids, payload lengths) are below 2^31.
put_u32(n) ==
    << (n \div 16777216) % 256, (n \div 65536) % 256, (n \div 256) % 256,
       n % 256 >>

\* u32::from_be_bytes
u32_from_be_bytes(b) == ((b[1] * 256 + b[2]) * 256 + b[3]) * 256 + b[4]

\* crate::utils::bytes_to_u32 of a 4-byte slice
bytes_to_u32(b) == u32_from_be_bytes(b)

\* a mutant of build_command_frame that writes the two u32 fields
\* least-significant byte first
Mut_build_little_endian(packet_type, session_id, command_type, payload) ==
    LET le(n) == << n % 256, (n \div 256) % 256, (n \div 65536) % 256,
                    (n \div 16777216) % 256 >>
    IN  <<PacketType_as_u8(packet_type)>>
        \o le(session_id)
        \o <<IF IsSome(command_type)
             THEN CommandType_as_u8(Unwrap(command_type)) ELSE 0>>
        \o le(Len(payload))
        \o payload

\* build_command_frame
build_command_frame(packet_type, session_id, command_type, payload) ==
    <<PacketType_as_u8(packet_type)>>
    \o put_u32(session_id)
    \o <<IF IsSome(command_type)
         THEN CommandType_as_u8(Unwrap(command_type)) ELSE 0>>
    \o put_u32(Len(payload))
    \o payload

\* the ASCII bytes of "https://ipinfo.io/widget/demo/"
LocationUrlPrefix ==
    << 104, 116, 116, 112, 115, 58, 47, 47, 105, 112, 105, 110, 102, 111, 46,
       105, 111, 47, 119, 105, 100, 103, 101, 116, 47, 100, 101, 109, 111, 47 >>

build_speed_test_command(url) ==
    build_command_frame("Command", 0, Some("SpeedCheck"), url)

build_version_check_command ==
    build_command_frame("Command", 0, Some("VersionCheck"), <<>>)

build_heartbeat_command ==
    build_command_frame("Command", 0, Some("Heartbeat"), <<>>)

build_init_session_command(session_id, payload) ==
    build_command_frame("Command", session_id, Some("InitSession"), payload)

build_location_check_command(ip) ==
    build_command_frame("Command", 0, Some("LocationCheck"),
                        LocationUrlPrefix \o ip)

build_data_frame(session_id, payload) ==
    build_command_frame("Data", session_id, None, payload)

\* a mutant of parse_header that reads the payload length one byte early
Mut_parse_len_offset(buffer) ==
    IF Len(buffer) < 10
    THEN [packet_type |-> None, session_id |-> 0, payload_len |-> 0,
          command_type |-> None]
    ELSE LET packet_type == PacketType_from_u8(buffer[1]) IN
         [packet_type |-> packet_type,
          session_id |-> bytes_to_u32(SubSeq(buffer, 2, 5)),
          payload_len |-> u32_from_be_bytes(SubSeq(buffer, 6, 9)),
          command_type |-> IF packet_type = Some("Command")
                           THEN CommandType_from_u8(buffer[6])
                           ELSE None]

\* a mutant of parse_header that decodes byte 5 for every packet kind
Mut_parse_cmd_always(buffer) ==
    IF Len(buffer) < 10
    THEN [packet_type |-> None, session_id |-> 0, payload_len |-> 0,
          command_type |-> None]
    ELSE [packet_type |-> PacketType_from_u8(buffer[1]),
          session_id |-> bytes_to_u32(SubSeq(buffer, 2, 5)),
          payload_len |-> u32_from_be_bytes(SubSeq(buffer, 7, 10)),
          command_type |-> CommandType_from_u8(buffer[6])]

\* parse_header: (packet_type, session_id, payload_len, command_type)
parse_header(buffer) ==
    IF Len(buffer) < 10
    THEN [packet_type |-> None, session_id |-> 0, payload_len |-> 0,
          command_type |-> None]
    ELSE LET packet_type == PacketType_from_u8(buffer[1]) IN
         [packet_type |-> packet_type,
          session_id |-> bytes_to_u32(SubSeq(buffer, 2, 5)),
          payload_len |-> u32_from_be_bytes(SubSeq(buffer, 7, 10)),
          command_type |-> IF packet_type = Some("Command")
                           THEN CommandType_from_u8(buffer[6])
                           ELSE None]

\* the strings and ids the builders are called with
Str_u == <<117>>                                    \* "u"
Str_ip == <<49, 46, 50>>                            \* "1.2"
Str_hello == <<104, 101, 108, 108, 111>>            \* "hello"
Str_target ==                                       \* "example.com:80"
    <<101, 120, 97, 109, 112, 108, 101, 46, 99, 111, 109, 58, 56, 48>>
SessionIds == {1, 2128394904}                       \* 0x00000001, 0x7EDCBA98
DataPayloads == {<<>>, Str_hello}

InitCodec ==
    /\ PoolUnused /\ HeaderUnused /\ SlaveUnused /\ VetUnused
    /\ ConfUnused
    /\ ShardUnused
    /\ sent = <<>> /\ built = None /\ wire = <<>> /\ rxbuf = <<>>
    /\ rcvd = <<>> /\ partial = FALSE

\* a builder is called and its frame written to the stream in one write
Emit(packet_type, session_id, command_type, payload, frame) ==
    /\ Len(sent) < MaxFrames
    /\ LET args == [packet_type |-> packet_type, session_id |-> session_id,
                    command_type |-> command_type, payload |-> payload] IN
          /\ sent' = Append(sent, args)
          /\ built' = Some([args |-> args, frame |-> frame])
    /\ wire' = wire \o frame
    /\ UNCHANGED <<rxbuf, rcvd, partial, not_codec_vars>>

SendSpeedTest ==
    Emit("Command", 0, Some("SpeedCheck"), Str_u,
         build_speed_test_command(Str_u))

SendVersionCheck ==
    Emit("Command", 0, Some("VersionCheck"), <<>>, build_version_check_command)

SendHeartbeat ==
    Emit("Command", 0, Some("Heartbeat"), <<>>, build_heartbeat_command)

SendInitSession ==
    \E session_id \in SessionIds :
        Emit("Command", session_id, Some("InitSession"), Str_target,
             build_init_session_command(session_id, Str_target))

SendLocationCheck ==
    Emit("Command", 0, Some("LocationCheck"), LocationUrlPrefix \o Str_ip,
         build_location_check_command(Str_ip))

SendData ==
    \E session_id \in SessionIds, payload \in DataPayloads :
        Emit("Data", session_id, None, payload,
             build_data_frame(session_id, payload))

\* the reader holds a whole frame: header and declared payload
WholeFrame(buffer) ==
    /\ Len(buffer) >= 10
    /\ Len(buffer) >= 10 + parse_header(SubSeq(buffer, 1, 10)).payload_len

\* one read of the stream returns the next n bytes, whatever the frame bounds
ReadChunk ==
    \E n \in 1..Len(wire) :
        /\ rxbuf' = rxbuf \o SubSeq(wire, 1, n)
        /\ wire' = SubSeq(wire, n + 1, Len(wire))
        /\ partial' = (partial \/ ~WholeFrame(rxbuf'))
        /\ UNCHANGED <<sent, built, rcvd, not_codec_vars>>

\* read_exact_frame: once header and declared payload have arrived, the
\* parsed (kind, session id, command kind, payload)
read_exact_frame ==
    /\ WholeFrame(rxbuf)
    /\ LET h == parse_header(SubSeq(rxbuf, 1, 10)) IN
          /\ rcvd' = Append(rcvd,
                 [packet_type |-> h.packet_type, session_id |-> h.session_id,
                  command_type |-> h.command_type,
                  payload_len |-> h.payload_len,
                  payload |-> SubSeq(rxbuf, 11, 10 + h.payload_len)])
          /\ rxbuf' = SubSeq(rxbuf, 11 + h.payload_len, Len(rxbuf))
    /\ UNCHANGED <<sent, built, wire, partial, not_codec_vars>>

NextCodec ==
    \/ SendSpeedTest
    \/ SendVersionCheck
    \/ SendHeartbeat
    \/ SendInitSession
    \/ SendLocationCheck
    \/ SendData
    \/ ReadChunk
    \/ read_exact_frame

SpecCodec == InitCodec /\ [][NextCodec]_vars

\* C4: every frame a builder makes is 10 + len(payload) bytes: byte 0 the
\* packet kind (0 Data, 1 Command), bytes 1..4 the session id big-endian,
\* byte 5 the command kind (0 for Data, 1..5 for commands), bytes 6..9 the
\* payload length big-endian, then the payload unchanged.
Thm_C4 ==
    IsSome(built) =>
        LET a == Unwrap(built).args
            f == Unwrap(built).frame
        IN  /\ Len(f) = 10 + Len(a.payload)
            /\ \A i \in 1..Len(f) : f[i] \in Byte
            /\ f[1] = (IF a.packet_type = "Data" THEN 0 ELSE 1)
            /\ a.session_id = f[2] * 16777216 + f[3] * 65536 + f[4] * 256 + f[5]
            /\ a.packet_type = "Data" => f[6] = 0
            /\ a.packet_type = "Command" =>
                  /\ f[6] \in 1..5
                  /\ a.command_type =
                        Some(<<"SpeedCheck", "VersionCheck", "Heartbeat",
                               "LocationCheck", "InitSession">>[f[6]])
            /\ Len(a.payload) =
                  f[7] * 16777216 + f[8] * 65536 + f[9] * 256 + f[10]
            /\ \A i \in 1..Len(a.payload) : f[10 + i] = a.payload[i]
            /\ (a.command_type = Some("InitSession") /\ a.session_id = 1) =>
                  SubSeq(f, 1, 10) = <<1, 0, 0, 0, 1, 5, 0, 0, 0, 14>>
            /\ (a.packet_type = "Data" /\ a.session_id = 1
                  /\ a.payload = Str_hello) =>
                  f = <<0, 0, 0, 0, 1, 0, 0, 0, 0, 5>> \o Str_hello

\* the InitSession frame for session 1 and target example.com:80 was built,
\* after a Data frame carrying "hello" for a session id with four distinct bytes
Wit_C4 ==
    /\ IsSome(built)
    /\ Unwrap(built).frame = <<1, 0, 0, 0, 1, 5, 0, 0, 0, 14>> \o Str_target
    /\ Len(sent) = 2
    /\ sent[1] = [packet_type |-> "Data", session_id |-> 2128394904,
                  command_type |-> None, payload |-> Str_hello]

\* the frame the reader must decode for a builder call
Decoded(a) ==
    [packet_type |-> Some(a.packet_type), session_id |-> a.session_id,
     command_type |-> a.command_type, payload_len |-> Len(a.payload),
     payload |-> a.payload]

\* C5: whatever the chunk boundaries, the frames decoded are the frames built,
\* in order; once all bytes are read and no whole frame is left, every frame
\* has been decoded and no byte remains; and parse_header of a single encoded
\* frame returns that frame's packet kind, session id, payload length and
\* command kind.
Thm_C5 ==
    /\ Len(rcvd) <= Len(sent)
    /\ \A i \in 1..Len(rcvd) : rcvd[i] = Decoded(sent[i])
    /\ (wire = <<>> /\ ~WholeFrame(rxbuf)) =>
          (Len(rcvd) = Len(sent) /\ rxbuf = <<>>)
    /\ IsSome(built) =>
          LET a == Unwrap(built).args IN
              parse_header(Unwrap(built).frame) =
                  [packet_type |-> Some(a.packet_type),
                   session_id |-> a.session_id,
                   payload_len |-> Len(a.payload),
                   command_type |-> a.command_type]

\* two frames, a command and a non-empty Data frame, were decoded from a
\* stream whose reads stopped inside a frame
Wit_C5 ==
    /\ Len(sent) = 2 /\ Len(rcvd) = 2
    /\ wire = <<>> /\ rxbuf = <<>>
    /\ partial
    /\ rcvd[1].packet_type = Some("Command")
    /\ rcvd[1].session_id = 2128394904
    /\ rcvd[2].packet_type = Some("Data")
    /\ rcvd[2].payload = Str_hello

(***************************************************************************)
(* parse_header on arbitrary input (src/src/packet.rs)                     *)
(***************************************************************************)
\* a 10-byte header with the given packet-kind byte, session id, command-kind
\* byte and payload length field
RawHeader(kind, session_id, cmd, payload_len) ==
    <<kind>> \o put_u32(session_id) \o <<cmd>> \o put_u32(payload_len)

KindBytes == {0, 1, 127, 255}
CmdBytes == 0..6
LengthFields == {0, 5, MAX_BUF_SIZE - 10, MAX_BUF_SIZE - 9, 2147483647}

\* the buffers parse_header is called with: whole headers, a header followed
\* by payload bytes, and reads that stopped short of 10 bytes
HeaderInputs ==
    LET whole == { RawHeader(k, sid, c, n) :
                      k \in KindBytes, sid \in {0} \cup SessionIds,
                      c \in CmdBytes, n \in LengthFields }
    IN  whole
        \cup { h \o Str_hello : h \in {w \in whole : w[10] = 5 /\ w[9] = 0} }
        \cup { SubSeq(h, 1, n) : h \in whole, n \in {0, 1, 9} }

InitHeader ==
    /\ PoolUnused /\ CodecUnused /\ SlaveUnused /\ VetUnused
    /\ ConfUnused
    /\ ShardUnused
    /\ hdr_in \in HeaderInputs
    /\ hdr_out = None

\* the caller parses the bytes it has read
ParseHeader ==
    /\ hdr_out = None
    /\ hdr_out' = Some(parse_header(hdr_in))
    /\ UNCHANGED <<hdr_in, not_header_vars>>

NextHeader == ParseHeader

SpecHeader == InitHeader /\ [][NextHeader]_vars

\* C6: for a buffer shorter than 10 bytes parse_header reports an outcome
\* that it reports for no buffer of 10 bytes or more, be its packet kind
\* unrecognized or not.
Orig_C6 ==
    (IsSome(hdr_out) /\ Len(hdr_in) < 10) =>
        \A buffer \in HeaderInputs :
            Len(buffer) >= 10 => parse_header(buffer) # Unwrap(hdr_out)

\* C7: a header whose payload length field exceeds MAX_BUF_SIZE - 10 is
\* reported as invalid (no packet kind), and a header with a recognized kind
\* and a length field up to MAX_BUF_SIZE - 10 is accepted.
Orig_C7 ==
    (IsSome(hdr_out) /\ Len(hdr_in) >= 10) =>
        LET payload_len == hdr_in[7] * 16777216 + hdr_in[8] * 65536
                           + hdr_in[9] * 256 + hdr_in[10]
        IN  /\ payload_len > MAX_BUF_SIZE - 10 =>
                  Unwrap(hdr_out).packet_type = None
            /\ (payload_len <= MAX_BUF_SIZE - 10 /\ hdr_in[1] \in {0, 1}) =>
                  IsSome(Unwrap(hdr_out).packet_type)

(***************************************************************************)
(* Frames from established slaves: process_packet (src/src/packet.rs)      *)
(***************************************************************************)
MaxSlaves == 2        \* established slaves, each with its read task
MaxTime == 2          \* the clock runs from 0 to MaxTime
MaxSlaveFrames == 2   \* frames read from slaves per behaviour

Slaves == 1..MaxSlaves

Str_ALIVE == <<65, 76, 73, 86, 69>>                 \* "ALIVE"
Str_ALIV == <<65, 76, 73, 86>>                      \* "ALIV"
Str_alive == <<97, 108, 105, 118, 101>>             \* "alive"
Str_ALIVEX == <<65, 76, 73, 86, 69, 33>>            \* "ALIVE!"

\* the frames a slave sends: packet-kind byte, session id, command-kind byte
\* and payload
RawFrame(kind, session_id, cmd, payload) ==
    [header |-> RawHeader(kind, session_id, cmd, Len(payload)),
     payload |-> payload]

SlaveFrames ==
    { RawFrame(1, 0, 3, p) :
        p \in {Str_ALIVE, <<>>, Str_ALIV, Str_alive, Str_ALIVEX} }
    \cup { RawFrame(1, 0, c, Str_ALIVE) : c \in {0, 1, 2, 4, 5, 6} }
    \cup { RawFrame(0, sid, 0, p) : sid \in {1, 2}, p \in {Str_ALIVE, Str_hello} }
    \cup { RawFrame(0, 1, 3, Str_ALIVE) }
    \cup { RawFrame(127, 0, 3, Str_ALIVE), RawFrame(127, 1, 0, <<>>),
           RawFrame(255, 0, 3, Str_ALIVE) }

\* a mutant of the heartbeat test that accepts any payload starting with ALIVE
Mut_is_alive_prefix(payload) ==
    Len(payload) >= 5 /\ SubSeq(payload, 1, 5) = Str_ALIVE

\* payload.as_ref() == b"ALIVE"
is_alive(payload) == payload = Str_ALIVE

\* a mutant of the match that takes any Command frame carrying ALIVE for a
\* heartbeat
Mut_touches_any_command(packet_type, command_type, payload) ==
    packet_type = Some("Command") /\ payload = <<65, 76, 73, 86, 69>>

\* whether process_packet assigns *last_seen = Instant::now()
touches_last_seen(packet_type, command_type, payload) ==
    /\ packet_type = Some("Command")
    /\ command_type = Some("Heartbeat")
    /\ is_alive(payload)

\* what process_packet returns: Ok(()) on every path
process_packet_result(packet_type, command_type) == "Ok"

\* the sessions open when the read tasks start
EstablishedSessions == {1, 2}

InitSlave ==
    /\ PoolUnused /\ CodecUnused /\ HeaderUnused /\ VetUnused
    /\ ConfUnused
    /\ ShardUnused
    /\ now = 0
    /\ last_seen = [s \in Slaves |-> 0]
    /\ rd_pc = [s \in Slaves |-> "read"]
    /\ rd_frame = [s \in Slaves |-> None]
    /\ pm_lock = None
    /\ routed = <<>>
    /\ pp_done = None
    /\ rd_count = 0
    /\ rd_log = <<>>
    /\ sessions = EstablishedSessions

\* time passes
Tick ==
    /\ now < MaxTime
    /\ now' = now + 1
    /\ UNCHANGED <<last_seen, rd_pc, rd_frame, pm_lock, routed, pp_done,
                   rd_count, rd_log, sessions, not_slave_vars>>

\* a mutant of the call that passes the header's payload length as the
\* session id
Mut_route_call_len(s, a) ==
    [slave |-> s, session_id |-> Len(a.payload), payload |-> a.payload]

\* the arguments of .route_to_client(session_id, payload), tagged with the
\* slave whose read task makes the call
route_call(s, a) ==
    [slave |-> s, session_id |-> a.session_id, payload |-> a.payload]

\* ProxyManager::route_to_client: the session table it leaves. The payload
\* of a known session is written to the session's client write handle, and
\* a failed write destroys the session; a frame of an unknown session is
\* dropped
route_to_client(session_id, wrote) ==
    IF session_id \in sessions /\ ~wrote
    THEN sessions \ {session_id}
    ELSE sessions

\* route_to_client is writing to a client socket on behalf of slave s
client_write_in_progress(s) ==
    /\ rd_pc[s] = "route"
    /\ Unwrap(rd_frame[s]).session_id \in sessions

\* the arguments the read task passes to process_packet for a frame
Args(frame) ==
    LET h == parse_header(frame.header) IN
        [packet_type |-> h.packet_type, command_type |-> h.command_type,
         payload |-> frame.payload, session_id |-> h.session_id]

\* process_packet returned to the read task of slave s; an Err ends the task
Returned(s, seq, a, touched) ==
    LET result == process_packet_result(a.packet_type, a.command_type) IN
        /\ pp_done' = Some([slave |-> s, seq |-> seq, args |-> a,
                            result |-> result, touched |-> touched])
        /\ rd_pc' = [rd_pc EXCEPT ![s] = IF result = "Ok" THEN "read"
                                         ELSE "closed"]

\* process_packet, Some(PacketType::Command) arm
process_packet_command(s, frame) ==
    LET a == Args(frame)
        touched == touches_last_seen(a.packet_type, a.command_type, a.payload)
    IN  /\ rd_pc[s] = "read"
        /\ rd_count < MaxSlaveFrames
        /\ a.packet_type = Some("Command")
        /\ rd_count' = rd_count + 1
        /\ last_seen' = IF touched THEN [last_seen EXCEPT ![s] = now]
                        ELSE last_seen
        /\ Returned(s, rd_count + 1, a, touched)
        /\ UNCHANGED <<now, rd_frame, pm_lock, routed, rd_log, sessions,
                       not_slave_vars>>

\* process_packet, None arm
process_packet_unknown(s, frame) ==
    LET a == Args(frame) IN
        /\ rd_pc[s] = "read"
        /\ rd_count < MaxSlaveFrames
        /\ a.packet_type = None
        /\ rd_count' = rd_count + 1
        /\ Returned(s, rd_count + 1, a, FALSE)
        /\ UNCHANGED <<now, last_seen, rd_frame, pm_lock, routed, rd_log,
                       sessions, not_slave_vars>>

\* process_packet, Some(PacketType::Data) arm: proxy_manager.lock() is awaited
process_packet_data(s, frame) ==
    LET a == Args(frame) IN
        /\ rd_pc[s] = "read"
        /\ rd_count < MaxSlaveFrames
        /\ a.packet_type = Some("Data")
        /\ rd_count' = rd_count + 1
        /\ rd_frame' = [rd_frame EXCEPT ![s] = Some(a)]
        /\ rd_pc' = [rd_pc EXCEPT ![s] = "lock"]
        /\ rd_log' = Append(rd_log, [slave |-> s, session_id |-> a.session_id,
                                     payload |-> a.payload])
        /\ UNCHANGED <<now, last_seen, pm_lock, routed, pp_done, sessions,
                       not_slave_vars>>

\* the mutex is acquired and route_to_client(session_id, payload) is called
\* on the guard
lock_and_route(s) ==
    /\ rd_pc[s] = "lock"
    /\ pm_lock = None
    /\ pm_lock' = Some(s)
    /\ routed' = Append(routed, route_call(s, Unwrap(rd_frame[s])))
    /\ rd_pc' = [rd_pc EXCEPT ![s] = "route"]
    /\ UNCHANGED <<now, last_seen, rd_frame, pp_done, rd_count, rd_log,
                   sessions, not_slave_vars>>

\* route_to_client's future completes, the write to the client having
\* succeeded or not; the guard is dropped at the end of the statement and
\* process_packet returns
route_done(s, wrote) ==
    /\ rd_pc[s] = "route"
    /\ sessions' = route_to_client(Unwrap(rd_frame[s]).session_id, wrote)
    /\ pm_lock' = None
    /\ rd_frame' = [rd_frame EXCEPT ![s] = None]
    /\ Returned(s, rd_count, Unwrap(rd_frame[s]), FALSE)
    /\ UNCHANGED <<now, last_seen, routed, rd_count, rd_log, not_slave_vars>>

NextSlave ==
    \/ Tick
    \/ \E s \in Slaves, frame \in SlaveFrames : process_packet_command(s, frame)
    \/ \E s \in Slaves, frame \in SlaveFrames : process_packet_unknown(s, frame)
    \/ \E s \in Slaves, frame \in SlaveFrames : process_packet_data(s, frame)
    \/ \E s \in Slaves : lock_and_route(s)
    \/ \E s \in Slaves, wrote \in BOOLEAN : route_done(s, wrote)

SpecSlave == InitSlave /\ [][NextSlave]_vars

\* C8: processing a frame with an unrecognized packet-kind byte terminates
\* the slave it came from: process_packet reports an error to the read task,
\* which ends.
Orig_C8 ==
    (IsSome(pp_done) /\ Unwrap(pp_done).args.packet_type = None) =>
        \/ Unwrap(pp_done).result = "Err"
        \/ rd_pc[Unwrap(pp_done).slave] = "closed"

\* C9: a step writes last_seen if and only if it is process_packet returning
\* for a Command frame of kind Heartbeat whose payload is exactly the five
\* bytes ALIVE, and then it sets the last_seen of that slave alone to the
\* current instant; every other step leaves last_seen unchanged.
Thm_C9 ==
    [][LET returns == pp_done' # pp_done
           d == Unwrap(pp_done')
           alive == /\ returns
                    /\ d.args.packet_type = Some("Command")
                    /\ d.args.command_type = Some("Heartbeat")
                    /\ d.args.payload = <<65, 76, 73, 86, 69>>
       IN  /\ returns => (d.touched <=> alive)
           /\ alive => last_seen' = [last_seen EXCEPT ![d.slave] = now]
           /\ ~alive => last_seen' = last_seen]_vars

\* the second frame processed was an ALIVE heartbeat at instant MaxTime: it
\* moved the last_seen of its slave, and only of its slave, to that instant
Wit_C9 ==
    /\ IsSome(pp_done)
    /\ Unwrap(pp_done).touched
    /\ Unwrap(pp_done).seq = 2
    /\ now = MaxTime
    /\ last_seen[Unwrap(pp_done).slave] = now
    /\ \A s \in Slaves \ {Unwrap(pp_done).slave} : last_seen[s] = 0

(***************************************************************************)
(* Vetting (src/src/verify_slave.rs)                                       *)
(***************************************************************************)
MaxCandidates == 2    \* newly accepted slaves being vetted
RespLen == 3          \* bytes of a whole response frame in the model

Candidates == 1..MaxCandidates

\* the three vetting steps
Steps == {"version", "geolocation", "speed"}

ALLOWED_SLAVE_VERSIONS == {"1.0.9"}

\* the versions a slave may report
Versions == {"1.0.9", "0.9.0", "1.0.90", ""}

\* what CommandPayload::from_bytes makes of the payload of a response: an
\* error, or a record with the optional fields version and url
CommandPayloads ==
    [ok : {TRUE}, version : {None} \cup {Some(v) : v \in Versions},
     url : {None, Some("x")}]
    \cup {[ok |-> FALSE, version |-> None, url |-> None]}

\* the outcomes of time::timeout(CLIENT_REQUEST_TIMEOUT, read_stream(..)):
\* the timeout elapsed, the read failed, or len bytes were read which
\* parse_command_header and CommandPayload::from_bytes turn into decoded
Responses ==
    { [kind |-> k, len |-> 0, decoded |-> [ok |-> FALSE, version |-> None,
                                           url |-> None]] :
        k \in {"timeout", "read_err"} }
    \cup { [kind |-> "read", len |-> n,
            decoded |-> [ok |-> FALSE, version |-> None, url |-> None]] :
              n \in {0, 2} }
    \cup { [kind |-> "read", len |-> RespLen, decoded |-> d] :
              d \in CommandPayloads }

Str_US == <<85, 83>>                                \* "US"
Str_us == <<117, 115>>                              \* "us"
Str_USA == <<85, 83, 65>>                           \* "USA"
Str_DE == <<68, 69>>                                \* "DE"
Str_at == <<64, 64>>                                \* "@@"
Str_bq == <<96, 96>>                                \* "``"

\* the countries a geolocation service may report
Countries == {Str_US, Str_us, Str_USA, Str_DE, Str_bq, <<>>}

\* the allowed_locations a broker may be configured with
AllowedLists == { <<>>, <<Str_DE, Str_US>>, <<Str_us, Str_at>> }

\* what serde_json::from_str and location["data"]["country"].as_str() make
\* of the text in the url field: a parse error, or a document in which
\* data.country is a string or is not
LocationData ==
    [json_ok : {TRUE}, country : {None} \cup {Some(k) : k \in Countries}]
    \cup {[json_ok |-> FALSE, country |-> None]}

\* the responses to the location command, shaped as Responses
GeoResponses ==
    { [kind |-> k, len |-> 0, decoded |-> [ok |-> FALSE, version |-> None,
                                           url |-> None]] :
        k \in {"timeout", "read_err"} }
    \cup { [kind |-> "read", len |-> n,
            decoded |-> [ok |-> FALSE, version |-> None, url |-> None]] :
              n \in {0, 2} }
    \cup { [kind |-> "read", len |-> RespLen,
            decoded |-> [ok |-> FALSE, version |-> None, url |-> None]] }
    \cup { [kind |-> "read", len |-> RespLen,
            decoded |-> [ok |-> TRUE, version |-> None, url |-> u]] :
              u \in {None} \cup {Some(d) : d \in LocationData} }

Str_125_4 == <<49, 50, 53, 46, 52>>                 \* "125.4"
Str_125_40 == <<49, 50, 53, 46, 52, 48>>            \* "125.40"
Str_m3 == <<45, 51>>                                \* "-3"
Str_5dot == <<53, 46>>                              \* "5."
Str_dot == <<46>>                                   \* "."
Str_abc == <<97, 98, 99>>                           \* "abc"
Str_12x == <<49, 50, 120>>                          \* "12x"
Str_sp5 == <<32, 53>>                               \* " 5"
Str_NaN == <<78, 97, 78>>                           \* "NaN"
Str_nan == <<110, 97, 110>>                         \* "nan"
Str_inf == <<105, 110, 102>>                        \* "inf"
Str_infinity ==                                     \* "infinity"
    <<105, 110, 102, 105, 110, 105, 116, 121>>

\* the texts a slave may report as its speed
SpeedTexts ==
    { Str_125_4, Str_125_40, Str_m3, Str_5dot, Str_dot, Str_abc, Str_12x,
      Str_sp5, Str_NaN, <<>> }

\* the responses to the speed command, shaped as Responses
SpeedResponses ==
    { [kind |-> k, len |-> 0, decoded |-> [ok |-> FALSE, version |-> None,
                                           url |-> None]] :
        k \in {"timeout", "read_err"} }
    \cup { [kind |-> "read", len |-> n,
            decoded |-> [ok |-> FALSE, version |-> None, url |-> None]] :
              n \in {0, 2} }
    \cup { [kind |-> "read", len |-> RespLen,
            decoded |-> [ok |-> FALSE, version |-> None, url |-> None]] }
    \cup { [kind |-> "read", len |-> RespLen,
            decoded |-> [ok |-> TRUE, version |-> None, url |-> u]] :
              u \in {None} \cup {Some(t) : t \in SpeedTexts} }

\* a mutant of the allowlist test that accepts every version
Mut_version_allowed_any(version) == TRUE

\* ALLOWED_SLAVE_VERSIONS.contains(&version.as_str())
version_allowed(version) == version \in ALLOWED_SLAVE_VERSIONS

\* the match of perform_version_check on the outcome of the read: the result
\* returned and the version passed to set_version, if any
version_check_read(resp) ==
    IF resp.kind = "read" /\ resp.len > 2
    THEN IF ~resp.decoded.ok
         THEN [result |-> "Err", set_version |-> None]
         ELSE IF IsSome(resp.decoded.version)
              THEN IF ~version_allowed(Unwrap(resp.decoded.version))
                   THEN [result |-> "Err", set_version |-> None]
                   ELSE [result |-> "Ok",
                         set_version |-> resp.decoded.version]
              ELSE [result |-> "Err", set_version |-> None]
    ELSE [result |-> "Err", set_version |-> None]

\* u8::to_ascii_lowercase
to_ascii_lowercase(b) == IF b \in 65..90 THEN b + 32 ELSE b

\* a mutant of eq_ignore_ascii_case that compares the bytes as they are
Mut_eq_exact(a, b) == a = b

\* str::eq_ignore_ascii_case
eq_ignore_ascii_case(a, b) ==
    /\ Len(a) = Len(b)
    /\ \A i \in 1..Len(a) :
          to_ascii_lowercase(a[i]) = to_ascii_lowercase(b[i])

\* !allowed_locations.is_empty()
\*     && !allowed_locations.iter().any(|loc| loc.eq_ignore_ascii_case(country))
location_rejected(allowed, country) ==
    /\ allowed # <<>>
    /\ ~\E i \in 1..Len(allowed) : eq_ignore_ascii_case(allowed[i], country)

\* the match of perform_geolocation_check on the outcome of the read: the
\* result returned and the country passed to set_location, if any;
\* set_location runs before the country is tested against allowed_locations
geolocation_check_read(resp, allowed) ==
    IF resp.kind = "read" /\ resp.len > 2
    THEN IF ~resp.decoded.ok
         THEN [result |-> "Err", set_location |-> None]
         ELSE IF IsSome(resp.decoded.url)
              THEN LET location == Unwrap(resp.decoded.url) IN
                   IF ~location.json_ok
                   THEN [result |-> "Err", set_location |-> None]
                   ELSE IF IsSome(location.country)
                        THEN IF location_rejected(allowed,
                                                  Unwrap(location.country))
                             THEN [result |-> "Err",
                                   set_location |-> location.country]
                             ELSE [result |-> "Ok",
                                   set_location |-> location.country]
                        ELSE [result |-> "Err", set_location |-> None]
              ELSE [result |-> "Err", set_location |-> None]
    ELSE [result |-> "Err", set_location |-> None]

\* the value of a string of decimal digits
RECURSIVE digits_value(_)
digits_value(s) ==
    IF s = <<>> THEN 0
    ELSE 10 * digits_value(SubSeq(s, 1, Len(s) - 1)) + (s[Len(s)] - 48)

\* a finite f64 as sign, decimal mantissa and decimal exponent, the mantissa
\* without trailing zeros
RECURSIVE f64_finite(_, _, _)
f64_finite(neg, mant, exp) ==
    IF mant = 0 THEN [class |-> "finite", neg |-> neg, mant |-> 0, exp |-> 0]
    ELSE IF mant % 10 = 0 THEN f64_finite(neg, mant \div 10, exp + 1)
    ELSE [class |-> "finite", neg |-> neg, mant |-> mant, exp |-> exp]

\* a mutant of the parse that takes the digits before the first other byte
Mut_f64_prefix(s) ==
    LET stops == {i \in 1..Len(s) : s[i] \notin 48..57}
        n == IF stops = {} THEN Len(s)
             ELSE (CHOOSE i \in stops : \A j \in stops : i <= j) - 1
    IN IF n = 0 THEN None
       ELSE Some(f64_finite(FALSE, digits_value(SubSeq(s, 1, n)), 0))

\* str::parse::<f64>() on texts without an exponent: an optional sign, then
\* inf, infinity or nan in any case, or digits with at most one point and at
\* least one digit; None is the parse error
f64_from_str(s) ==
    LET signed == s # <<>> /\ s[1] \in {43, 45}
        neg == s # <<>> /\ s[1] = 45
        body == IF signed THEN Tail(s) ELSE s
        lower == [i \in 1..Len(body) |-> to_ascii_lowercase(body[i])]
        dots == {i \in 1..Len(body) : body[i] = 46}
        dot == IF dots = {} THEN Len(body) + 1
               ELSE CHOOSE i \in dots : \A j \in dots : i <= j
        int == SubSeq(body, 1, dot - 1)
        frac == SubSeq(body, dot + 1, Len(body))
        all_digits(t) == \A i \in 1..Len(t) : t[i] \in 48..57
    IN IF lower \in {Str_inf, Str_infinity}
       THEN Some([class |-> "inf", neg |-> neg, mant |-> 0, exp |-> 0])
       ELSE IF lower = Str_nan
       THEN Some([class |-> "nan", neg |-> neg, mant |-> 0, exp |-> 0])
       ELSE IF all_digits(int) /\ all_digits(frac) /\ Len(int) + Len(frac) > 0
       THEN Some(f64_finite(neg, digits_value(int \o frac), 0 - Len(frac)))
       ELSE None

\* the match of perform_speed_test on the outcome of the read: the result
\* returned and the speed passed to set_speed, if any
speed_test_read(resp) ==
    IF resp.kind = "read" /\ resp.len > 2
    THEN IF ~resp.decoded.ok
         THEN [result |-> "Err", set_speed |-> None]
         ELSE IF IsSome(resp.decoded.url)
              THEN LET speed == f64_from_str(Unwrap(resp.decoded.url)) IN
                   IF IsSome(speed)
                   THEN [result |-> "Ok", set_speed |-> speed]
                   ELSE [result |-> "Err", set_speed |-> None]
              ELSE [result |-> "Err", set_speed |-> None]
    ELSE [result |-> "Err", set_speed |-> None]

\* a mutant of read_stream that returns what a single read of the socket
\* finds
Mut_read_stream_single(c, resp) ==
    resp.kind = "read" =>
        /\ resp.len = vet_arrived[c]
        /\ vet_arrived[c] > 0 \/ vet_closed[c]

\* Slave::read_stream under time::timeout: the outcomes it may have now.
\* The timeout and a read error may come at any time; bytes are returned
\* once a whole frame has arrived, or what has arrived when the slave has
\* closed the stream
read_stream(c, resp) ==
    resp.kind = "read" =>
        /\ resp.len = vet_arrived[c]
        /\ vet_arrived[c] = RespLen \/ vet_closed[c]

InitVet ==
    /\ PoolUnused /\ CodecUnused /\ HeaderUnused /\ SlaveUnused /\ ConfUnused
    /\ ShardUnused
    /\ vet_step = "version"
    /\ allowed_locations = <<>>
    /\ vet_pc = [c \in Candidates |-> "start"]
    /\ vet_resp = [c \in Candidates |-> None]
    /\ vet_result = [c \in Candidates |-> None]
    /\ vet_arrived = [c \in Candidates |-> 0]
    /\ vet_split = [c \in Candidates |-> FALSE]
    /\ vet_closed = [c \in Candidates |-> FALSE]
    /\ vet_req = [c \in Candidates |-> "pending"]
    /\ slave_version = [c \in Candidates |-> None]
    /\ slave_location = [c \in Candidates |-> None]
    /\ slave_speed = [c \in Candidates |-> None]

\* the step under way is any of the three; allowed_locations is the broker's
\* configuration
InitVetting ==
    /\ PoolUnused /\ CodecUnused /\ HeaderUnused /\ SlaveUnused /\ ConfUnused
    /\ ShardUnused
    /\ vet_step \in Steps
    /\ allowed_locations \in
          IF vet_step = "geolocation" THEN AllowedLists ELSE {<<>>}
    /\ vet_pc = [c \in Candidates |-> "start"]
    /\ vet_resp = [c \in Candidates |-> None]
    /\ vet_result = [c \in Candidates |-> None]
    /\ vet_arrived = [c \in Candidates |-> 0]
    /\ vet_split = [c \in Candidates |-> FALSE]
    /\ vet_closed = [c \in Candidates |-> FALSE]
    /\ vet_req = [c \in Candidates |-> "pending"]
    /\ slave_version = [c \in Candidates |-> None]
    /\ slave_location = [c \in Candidates |-> None]
    /\ slave_speed = [c \in Candidates |-> None]

\* the slave's side takes the bytes of the request
slave_drains(c) ==
    /\ vet_pc[c] = "start"
    /\ vet_req[c] = "pending"
    /\ vet_req' = [vet_req EXCEPT ![c] = "drained"]
    /\ UNCHANGED <<vet_pc, vet_resp, vet_result, vet_arrived, vet_split,
                   vet_closed, vet_meta, vet_conf, not_vet_vars>>

\* the slave resets the connection while the request is being written
slave_resets(c) ==
    /\ vet_pc[c] = "start"
    /\ vet_req[c] = "pending"
    /\ vet_req' = [vet_req EXCEPT ![c] = "reset"]
    /\ UNCHANGED <<vet_pc, vet_resp, vet_result, vet_arrived, vet_split,
                   vet_closed, vet_meta, vet_conf, not_vet_vars>>

\* the slave's next n bytes of the response reach the broker
slave_sends(c, n) ==
    /\ vet_pc[c] = "read"
    /\ ~vet_closed[c]
    /\ vet_arrived[c] + n <= RespLen
    /\ vet_arrived' = [vet_arrived EXCEPT ![c] = @ + n]
    /\ vet_split' = [vet_split EXCEPT ![c] = @ \/ vet_arrived[c] > 0]
    /\ UNCHANGED <<vet_pc, vet_resp, vet_result, vet_closed, vet_req,
                   vet_meta, vet_conf, not_vet_vars>>

\* the slave closes the stream before the whole response is out
slave_closes(c) ==
    /\ vet_pc[c] = "read"
    /\ ~vet_closed[c]
    /\ vet_arrived[c] < RespLen
    /\ vet_closed' = [vet_closed EXCEPT ![c] = TRUE]
    /\ UNCHANGED <<vet_pc, vet_resp, vet_result, vet_arrived, vet_split,
                   vet_req, vet_meta, vet_conf, not_vet_vars>>

\* perform_version_check: write_stream(&version_command) fails
version_write_err(c) ==
    /\ vet_step = "version"
    /\ vet_pc[c] = "start"
    /\ vet_req[c] = "reset"
    /\ vet_pc' = [vet_pc EXCEPT ![c] = "done"]
    /\ vet_result' = [vet_result EXCEPT ![c] = Some("Err")]
    /\ UNCHANGED <<vet_resp, vet_wire, vet_meta, vet_conf, not_vet_vars>>

\* perform_version_check: write_stream(&version_command) succeeds
version_write_ok(c) ==
    /\ vet_step = "version"
    /\ vet_pc[c] = "start"
    /\ vet_req[c] = "drained"
    /\ vet_pc' = [vet_pc EXCEPT ![c] = "read"]
    /\ UNCHANGED <<vet_resp, vet_result, vet_wire, vet_meta, vet_conf,
                   not_vet_vars>>

\* perform_version_check: the timed read completes and is matched
version_read(c, resp) ==
    /\ vet_step = "version"
    /\ vet_pc[c] = "read"
    /\ read_stream(c, resp)
    /\ LET r == version_check_read(resp) IN
          /\ vet_result' = [vet_result EXCEPT ![c] = Some(r.result)]
          /\ slave_version' =
                IF IsSome(r.set_version)
                THEN [slave_version EXCEPT ![c] = r.set_version]
                ELSE slave_version
    /\ vet_resp' = [vet_resp EXCEPT ![c] = Some(resp)]
    /\ vet_pc' = [vet_pc EXCEPT ![c] = "done"]
    /\ UNCHANGED <<slave_location, slave_speed, vet_wire, vet_conf,
                   not_vet_vars>>

\* perform_geolocation_check: write_stream(&location_command) fails
geolocation_write_err(c) ==
    /\ vet_step = "geolocation"
    /\ vet_pc[c] = "start"
    /\ vet_req[c] = "reset"
    /\ vet_pc' = [vet_pc EXCEPT ![c] = "done"]
    /\ vet_result' = [vet_result EXCEPT ![c] = Some("Err")]
    /\ UNCHANGED <<vet_resp, vet_wire, vet_meta, vet_conf, not_vet_vars>>

\* perform_geolocation_check: write_stream(&location_command) succeeds
geolocation_write_ok(c) ==
    /\ vet_step = "geolocation"
    /\ vet_pc[c] = "start"
    /\ vet_req[c] = "drained"
    /\ vet_pc' = [vet_pc EXCEPT ![c] = "read"]
    /\ UNCHANGED <<vet_resp, vet_result, vet_wire, vet_meta, vet_conf,
                   not_vet_vars>>

\* perform_geolocation_check: the timed read completes and is matched
geolocation_read(c, resp) ==
    /\ vet_step = "geolocation"
    /\ vet_pc[c] = "read"
    /\ read_stream(c, resp)
    /\ LET r == geolocation_check_read(resp, allowed_locations) IN
          /\ vet_result' = [vet_result EXCEPT ![c] = Some(r.result)]
          /\ slave_location' =
                IF IsSome(r.set_location)
                THEN [slave_location EXCEPT ![c] = r.set_location]
                ELSE slave_location
    /\ vet_resp' = [vet_resp EXCEPT ![c] = Some(resp)]
    /\ vet_pc' = [vet_pc EXCEPT ![c] = "done"]
    /\ UNCHANGED <<slave_version, slave_speed, vet_wire, vet_conf,
                   not_vet_vars>>

\* perform_speed_test: write_stream(&speed_command) fails
speed_write_err(c) ==
    /\ vet_step = "speed"
    /\ vet_pc[c] = "start"
    /\ vet_req[c] = "reset"
    /\ vet_pc' = [vet_pc EXCEPT ![c] = "done"]
    /\ vet_result' = [vet_result EXCEPT ![c] = Some("Err")]
    /\ UNCHANGED <<vet_resp, vet_wire, vet_meta, vet_conf, not_vet_vars>>

\* perform_speed_test: write_stream(&speed_command) succeeds
speed_write_ok(c) ==
    /\ vet_step = "speed"
    /\ vet_pc[c] = "start"
    /\ vet_req[c] = "drained"
    /\ vet_pc' = [vet_pc EXCEPT ![c] = "read"]
    /\ UNCHANGED <<vet_resp, vet_result, vet_wire, vet_meta, vet_conf,
                   not_vet_vars>>

\* perform_speed_test: the timed read completes and is matched
speed_read(c, resp) ==
    /\ vet_step = "speed"
    /\ vet_pc[c] = "read"
    /\ read_stream(c, resp)
    /\ LET r == speed_test_read(resp) IN
          /\ vet_result' = [vet_result EXCEPT ![c] = Some(r.result)]
          /\ slave_speed' =
                IF IsSome(r.set_speed)
                THEN [slave_speed EXCEPT ![c] = r.set_speed]
                ELSE slave_speed
    /\ vet_resp' = [vet_resp EXCEPT ![c] = Some(resp)]
    /\ vet_pc' = [vet_pc EXCEPT ![c] = "done"]
    /\ UNCHANGED <<slave_version, slave_location, vet_wire, vet_conf,
                   not_vet_vars>>

\* what the slave's side of the stream does
NextStream ==
    \/ \E c \in Candidates : slave_drains(c)
    \/ \E c \in Candidates : slave_resets(c)
    \/ \E c \in Candidates, n \in 1..RespLen : slave_sends(c, n)
    \/ \E c \in Candidates : slave_closes(c)

NextVet ==
    \/ \E c \in Candidates : version_write_err(c)
    \/ \E c \in Candidates : version_write_ok(c)
    \/ \E c \in Candidates, resp \in Responses : version_read(c, resp)
    \/ NextStream

SpecVet == InitVet /\ [][NextVet]_vars

NextVetting ==
    \/ \E c \in Candidates : version_write_err(c)
    \/ \E c \in Candidates : version_write_ok(c)
    \/ \E c \in Candidates, resp \in Responses : version_read(c, resp)
    \/ \E c \in Candidates : geolocation_write_err(c)
    \/ \E c \in Candidates : geolocation_write_ok(c)
    \/ \E c \in Candidates, resp \in GeoResponses : geolocation_read(c, resp)
    \/ \E c \in Candidates : speed_write_err(c)
    \/ \E c \in Candidates : speed_write_ok(c)
    \/ \E c \in Candidates, resp \in SpeedResponses : speed_read(c, resp)
    \/ NextStream

SpecVetting == InitVetting /\ [][NextVetting]_vars

\* the steps of the task that vets candidate c
vetting_task(c) ==
    \/ version_write_err(c) \/ version_write_ok(c)
    \/ \E resp \in Responses : version_read(c, resp)
    \/ geolocation_write_err(c) \/ geolocation_write_ok(c)
    \/ \E resp \in GeoResponses : geolocation_read(c, resp)
    \/ speed_write_err(c) \/ speed_write_ok(c)
    \/ \E resp \in SpeedResponses : speed_read(c, resp)

\* the runtime runs a vetting task whenever one of its awaits can complete:
\* a write whose bytes the slave's side took or whose connection was reset,
\* and a read under time::timeout, which the timer completes at the latest.
\* The slave owes nothing
SpecVettingFair ==
    SpecVetting /\ \A c \in Candidates : WF_vars(vetting_task(c))

\* C10: perform_version_check returns Ok only for a response that carries
\* version "1.0.9", and then the slave's version is that value; a slave that
\* reports any other version or none gets an error; and the version of a
\* slave whose check did not succeed is never set.
Thm_C10 ==
    \A c \in Candidates :
        /\ vet_result[c] = Some("Ok") =>
              /\ IsSome(vet_resp[c])
              /\ Unwrap(vet_resp[c]).decoded.version = Some("1.0.9")
              /\ slave_version[c] = Some("1.0.9")
        /\ (IsSome(vet_resp[c])
              /\ Unwrap(vet_resp[c]).decoded.version # Some("1.0.9")) =>
              vet_result[c] = Some("Err")
        /\ vet_result[c] # Some("Ok") => slave_version[c] = None

\* one slave reported 0.9.0 and was rejected with no version set, another
\* reported 1.0.9 and passed
Wit_C10 ==
    \E c, d \in Candidates :
        /\ IsSome(vet_resp[c])
        /\ Unwrap(vet_resp[c]).decoded.version = Some("0.9.0")
        /\ Unwrap(vet_resp[c]).len > 2
        /\ vet_result[c] = Some("Err")
        /\ slave_version[c] = None
        /\ vet_result[d] = Some("Ok")
        /\ slave_version[d] = Some("1.0.9")

\* the country a completed geolocation step of candidate c found in the
\* response, None when the response carried none
CountryOf(c) ==
    IF /\ vet_step = "geolocation"
       /\ IsSome(vet_resp[c])
       /\ Unwrap(vet_resp[c]).kind = "read"
       /\ Unwrap(vet_resp[c]).len > 2
       /\ Unwrap(vet_resp[c]).decoded.ok
       /\ IsSome(Unwrap(vet_resp[c]).decoded.url)
    THEN Unwrap(Unwrap(vet_resp[c]).decoded.url).country
    ELSE None

\* two byte strings that are equal once ASCII letters are upper-cased
SameLetters(a, b) ==
    LET up(x) == IF x \in 97..122 THEN x - 32 ELSE x IN
    /\ Len(a) = Len(b)
    /\ \A i \in 1..Len(a) : up(a[i]) = up(b[i])

\* C11: when the geolocation response carries a country string,
\* perform_geolocation_check returns an error exactly when allowed_locations
\* is non-empty and none of its entries equals the country ignoring ASCII
\* case (so an empty allowed_locations accepts every country), and when it
\* returns Ok the slave's location is that country.
Thm_C11 ==
    \A c \in Candidates :
        IsSome(CountryOf(c)) =>
            LET country == Unwrap(CountryOf(c))
                listed == \E i \in 1..Len(allowed_locations) :
                              SameLetters(allowed_locations[i], country)
            IN /\ vet_result[c] = Some("Err") <=>
                      (allowed_locations # <<>> /\ ~listed)
               /\ vet_result[c] = Some("Ok") <=>
                      (allowed_locations = <<>> \/ listed)
               /\ vet_result[c] = Some("Ok") =>
                      slave_location[c] = Some(country)

\* with allowed_locations "DE", "US": one slave reported "us" and passed with
\* location "us", another reported "USA" and was rejected
Wit_C11 ==
    /\ allowed_locations = <<Str_DE, Str_US>>
    /\ \E c, d \in Candidates :
          /\ CountryOf(c) = Some(Str_us)
          /\ vet_result[c] = Some("Ok")
          /\ slave_location[c] = Some(Str_us)
          /\ CountryOf(d) = Some(Str_USA)
          /\ vet_result[d] = Some("Err")


\* the speed texts among SpeedTexts that denote a number
NumberTexts == {Str_125_4, Str_125_40, Str_m3, Str_5dot, Str_NaN}

\* the step of candidate c has returned after meeting one of the failures:
\* the write failed, the read failed or timed out, at most 2 bytes came, the
\* payload did not decode or lacks the field, or the value is rejected or
\* unparsable
StepFailed(c) ==
    /\ vet_pc[c] = "done"
    /\ IF ~IsSome(vet_resp[c]) THEN TRUE
       ELSE LET resp == Unwrap(vet_resp[c]) IN
            IF resp.kind # "read" \/ resp.len <= 2 \/ ~resp.decoded.ok
            THEN TRUE
            ELSE IF vet_step = "version"
            THEN resp.decoded.version \notin {Some("1.0.9")}
            ELSE IF ~IsSome(resp.decoded.url) THEN TRUE
            ELSE IF vet_step = "speed"
            THEN Unwrap(resp.decoded.url) \notin NumberTexts
            ELSE LET location == Unwrap(resp.decoded.url) IN
                 \/ ~location.json_ok
                 \/ ~IsSome(location.country)
                 \/ /\ allowed_locations # <<>>
                    /\ \A i \in 1..Len(allowed_locations) :
                          ~SameLetters(allowed_locations[i],
                                       Unwrap(location.country))

\* C12: each of the three vetting steps returns an error whenever the request
\* write fails, the read fails or times out, the response has at most 2
\* bytes, the payload cannot be decoded or lacks the expected field, or the
\* value is rejected or unparsable; it returns Ok in no such case.
Thm_C12 ==
    \A c \in Candidates :
        /\ vet_pc[c] = "done" => vet_result[c] \in {Some("Ok"), Some("Err")}
        /\ StepFailed(c) => vet_result[c] = Some("Err")

\* a speed test failed on the unparsable text "12x" and another on a timeout
Wit_C12 ==
    /\ vet_step = "speed"
    /\ \E c, d \in Candidates :
          /\ StepFailed(c)
          /\ IsSome(vet_resp[c])
          /\ Unwrap(vet_resp[c]).decoded.url = Some(Str_12x)
          /\ vet_result[c] = Some("Err")
          /\ StepFailed(d)
          /\ IsSome(vet_resp[d])
          /\ Unwrap(vet_resp[d]).kind = "timeout"
          /\ vet_result[d] = Some("Err")


\* C18: every vetting step eventually returns, whatever the slave does: no
\* candidate's step stays unfinished for ever.
Orig_C18 == <>(\A c \in Candidates : vet_pc[c] = "done")

\* what the timeout does bound: a step whose request has been written returns
ReadReturns == \A c \in Candidates : vet_pc[c] = "read" ~> vet_pc[c] = "done"

Orig_C23 ==
    \A c \in Candidates :
        vet_result[c] = Some("Err") =>
            /\ slave_version[c] = None
            /\ slave_location[c] = None
            /\ slave_speed[c] = None

\* C13: the ProxyManager mutex is never held across socket I/O: in no
\* reachable state is the mutex held while a write to a client socket, the
\* routing of a Data frame's payload to its session's client write handle,
\* is in progress.
Orig_C13 ==
    \A s \in Slaves : client_write_in_progress(s) => pm_lock = None


\* the entries of a log that belong to session sid of slave s, in log order
OfSession(log, s, sid) ==
    SelectSeq(log, LAMBDA e : e.slave = s /\ e.session_id = sid)

\* the entries of a log that belong to slave s, in log order
OfSlave(log, s) == SelectSeq(log, LAMBDA e : e.slave = s)

\* C14: for each session of a slave, the calls of route_to_client are the
\* Data frames process_packet was given, in the same order, each once, with
\* the frame's session id and payload; only the frame whose call still waits
\* for the mutex is missing, and while a slave has a frame waiting or being
\* routed no later frame of it is processed, so routing of one frame is
\* complete before routing of the next starts.
Thm_C14 ==
    \A s \in Slaves :
        /\ \A sid \in 0..2 :
              LET l == OfSession(rd_log, s, sid)
                  waits == /\ rd_pc[s] = "lock"
                           /\ Unwrap(rd_frame[s]).session_id = sid
              IN OfSession(routed, s, sid) =
                    IF waits THEN SubSeq(l, 1, Len(l) - 1) ELSE l
        /\ \A i \in 1..Len(routed) :
              \E j \in 1..Len(rd_log) : routed[i] = rd_log[j]
        /\ Len(OfSlave(rd_log, s)) > Len(OfSlave(routed, s)) =>
              rd_pc[s] = "lock"
        /\ rd_pc[s] \in {"lock", "route"} =>
              /\ OfSlave(rd_log, s) # <<>>
              /\ OfSlave(rd_log, s)[Len(OfSlave(rd_log, s))] =
                    [slave |-> s,
                     session_id |-> Unwrap(rd_frame[s]).session_id,
                     payload |-> Unwrap(rd_frame[s]).payload]

\* a slave sent ALIVE and then hello on session 1: both were routed, in that
\* order, and the second routing is complete
Wit_C14 ==
    \E s \in Slaves :
        /\ OfSession(routed, s, 1) =
              << [slave |-> s, session_id |-> 1, payload |-> Str_ALIVE],
                 [slave |-> s, session_id |-> 1, payload |-> Str_hello] >>
        /\ rd_pc[s] = "read"
        /\ 1 \in sessions


\* C17: when process_packet returns for a Command frame whose command kind
\* is not Heartbeat (one of the four other kinds or an unrecognized byte),
\* the frame has been dropped: the step routes nothing, leaves last_seen,
\* the session table and the ProxyManager mutex as they were, returns Ok and
\* leaves the slave's read task waiting for the next frame.
Thm_C17 ==
    [][LET d == Unwrap(pp_done')
           dropped == /\ pp_done' # pp_done
                      /\ d.args.packet_type = Some("Command")
                      /\ d.args.command_type # Some("Heartbeat")
       IN  dropped =>
              /\ routed' = routed
              /\ rd_log' = rd_log
              /\ last_seen' = last_seen
              /\ sessions' = sessions
              /\ pm_lock' = pm_lock
              /\ d.result = "Ok"
              /\ rd_pc'[d.slave] = "read"]_vars

\* at instant MaxTime a slave's Command frame with the unrecognized command
\* byte 6 and payload ALIVE was processed: its last_seen is still 0, nothing
\* was routed, both sessions are open and its read task goes on
Wit_C17 ==
    /\ IsSome(pp_done)
    /\ Unwrap(pp_done).args.packet_type = Some("Command")
    /\ Unwrap(pp_done).args.command_type = None
    /\ Unwrap(pp_done).args.payload = Str_ALIVE
    /\ now = MaxTime
    /\ last_seen[Unwrap(pp_done).slave] = 0
    /\ routed = <<>>
    /\ sessions = {1, 2}
    /\ rd_pc[Unwrap(pp_done).slave] = "read"

\* the big-endian value of the four bytes of b that start at index i
BigEndianAt(b, i) ==
    b[i] * 16777216 + b[i + 1] * 65536 + b[i + 2] * 256 + b[i + 3]

\* C16: for a header of kind Data parse_header reports no command kind
\* whatever byte 5 holds, and the session id and payload length it reports
\* are read from bytes 1..4 and 6..9 alone; for a header of kind Command,
\* byte 5 in 1..5 gives SpeedCheck, VersionCheck, Heartbeat, LocationCheck,
\* InitSession and any other value gives no command kind.
Thm_C16 ==
    (IsSome(hdr_out) /\ Len(hdr_in) >= 10 /\ hdr_in[1] \in {0, 1}) =>
        LET h == Unwrap(hdr_out) IN
        /\ h.session_id =
              bytes_to_u32(<<hdr_in[2], hdr_in[3], hdr_in[4], hdr_in[5]>>)
        /\ h.payload_len = BigEndianAt(hdr_in, 7)
        /\ hdr_in[1] = 0 =>
              h.packet_type = Some("Data") /\ h.command_type = None
        /\ hdr_in[1] = 1 =>
              /\ h.packet_type = Some("Command")
              /\ h.command_type =
                    CASE hdr_in[6] = 1 -> Some("SpeedCheck")
                      [] hdr_in[6] = 2 -> Some("VersionCheck")
                      [] hdr_in[6] = 3 -> Some("Heartbeat")
                      [] hdr_in[6] = 4 -> Some("LocationCheck")
                      [] hdr_in[6] = 5 -> Some("InitSession")
                      [] OTHER -> None

\* a Data header whose byte 5 is 3, the Heartbeat code, with session id
\* 0x7EDCBA98 and length 5, was parsed as Data with no command kind
Wit_C16 ==
    /\ hdr_in = <<0, 126, 220, 186, 152, 3, 0, 0, 0, 5>>
    /\ IsSome(hdr_out)
    /\ Unwrap(hdr_out).packet_type = Some("Data")
    /\ Unwrap(hdr_out).command_type = None
    /\ Unwrap(hdr_out).session_id = 2128394904
    /\ Unwrap(hdr_out).payload_len = 5

(***************************************************************************)
(* Configuration (src/src/conf.rs)                                         *)
(***************************************************************************)
\* the texts given as the -p/--proxy_mode flag or as PROXY_MODE
ModeTexts ==
    {"stick", "nonstick", "Stick", "sticky", "nonstick ", "1", "2", ""}

\* a mutant of the resolution that lets the environment override the flag
Mut_proxy_mode_env_first(flag, env_var) ==
    IF IsSome(env_var) THEN Unwrap(env_var)
    ELSE IF IsSome(flag) THEN Unwrap(flag)
    ELSE "stick"

\* matches.opt_str("p").unwrap_or_else(|| env::var("PROXY_MODE")
\*     .unwrap_or_else(|_| "stick".to_string()))
proxy_mode(flag, env_var) ==
    IF IsSome(flag) THEN Unwrap(flag)
    ELSE IF IsSome(env_var) THEN Unwrap(env_var)
    ELSE "stick"

\* match proxy_mode.as_str() { "stick" => 1, "nonstick" => 2, _ => 2 }
client_assign_mode(mode) ==
    CASE mode = "stick" -> 1
      [] mode = "nonstick" -> 2
      [] OTHER -> 2

InitConf ==
    /\ PoolUnused /\ CodecUnused /\ HeaderUnused /\ SlaveUnused /\ VetUnused
    /\ ShardUnused
    /\ conf_flag \in {None} \cup {Some(t) : t \in ModeTexts}
    /\ conf_env \in {None} \cup {Some(t) : t \in ModeTexts}
    /\ conf_mode = None

\* parse_args: the proxy mode it resolves and the client_assign_mode it
\* stores in the Config
parse_args ==
    /\ conf_mode = None
    /\ conf_mode' =
          Some([proxy_mode |-> proxy_mode(conf_flag, conf_env),
                client_assign_mode |->
                    client_assign_mode(proxy_mode(conf_flag, conf_env))])
    /\ UNCHANGED <<conf_flag, conf_env, not_conf_vars>>

NextConf == parse_args

SpecConf == InitConf /\ [][NextConf]_vars

\* C15: the proxy mode is the value of the -p/--proxy_mode flag if the flag
\* is given, else the value of PROXY_MODE if it is set, else "stick"; the
\* mode stored is 1 for "stick", 2 for "nonstick" and 2 for any other text.
Thm_C15 ==
    IsSome(conf_mode) =>
        LET m == Unwrap(conf_mode) IN
        /\ IsSome(conf_flag) => m.proxy_mode = Unwrap(conf_flag)
        /\ (~IsSome(conf_flag) /\ IsSome(conf_env)) =>
              m.proxy_mode = Unwrap(conf_env)
        /\ (~IsSome(conf_flag) /\ ~IsSome(conf_env)) => m.proxy_mode = "stick"
        /\ m.proxy_mode = "stick" => m.client_assign_mode = 1
        /\ m.proxy_mode = "nonstick" => m.client_assign_mode = 2
        /\ m.proxy_mode \notin {"stick", "nonstick"} =>
              m.client_assign_mode = 2

\* the flag said "sticky" while PROXY_MODE said "stick": the flag won and
\* the unknown text gave mode 2
Wit_C15 ==
    /\ conf_flag = Some("sticky")
    /\ conf_env = Some("stick")
    /\ IsSome(conf_mode)
    /\ Unwrap(conf_mode).proxy_mode = "sticky"
    /\ Unwrap(conf_mode).client_assign_mode = 2

=============================================================================
